---- MODULE Spec2Model ----
(***************************************************************************)
(* llmio: the dispatch-and-retry engine of service.BalanceChat, its pool   *)
(* resolver, the per-request retry-log writer and the stream tee.          *)
(***************************************************************************)
EXTENDS Integers, Sequences, FiniteSets, TLC

\* ------------------------------------------------------------------ bounds
MaxRetryBound == 2    \* largest max_retry of a model row
MaxWeight == 3        \* largest weight of a mapping row
MaxBody == 2          \* longest upstream response body, in bytes
MaxAdminOps == 2      \* admin writes to the store during one request
MaxTokenLen == 2      \* longest configured token and presented credential

\* --------------------------------------------------------- program constants
StatusOK == 200
StatusTooManyRequests == 429
StatusUnauthorized == 401
\* the clock ticks in thirds of a second (line 212 divides by 3)
TicksPerSecond == 3

\* the rows of the store: two mappings, two providers
MappingIds == {1, 2}
ProviderIds == {1, 2}
LastMapping == CHOOSE m \in MappingIds : \A x \in MappingIds : x <= m
Styles == {"openai", "anthropic"}
Flags == {"null", "true", "false"}        \* *bool: nil, true, false
\* upstream bodies: byte i of a body is i, so that order and position show
Bodies == {[i \in 1..n |-> i] : n \in 0..MaxBody}
ErrBodies == {<<1>>}
Statuses == {200, 201, 429, 500}

VARIABLES
  models,          \* table models: set of rows
  mappings,        \* table model_with_providers: id -> row
  providersTbl,    \* table providers: id -> row
  storeLog,        \* history: the states the store has been in, oldest first
  req,             \* the parsed request (Beforer's result) and its validity
  auth,            \* the auth middleware in front of the handler
  now,             \* wall clock, in ticks since BalanceChat was entered
  other,           \* a second request for the same model: its own pool and loop
  ctxDone,         \* c.Request.Context() is cancelled
  pc,              \* position of the BalanceChat goroutine
  result,          \* BalanceChat's return value ("none" while running)
  llmProvidersWithLimit, \* ProvidersBymodelsName's result
  providerMap,     \* ids of the providers loaded for the request style
  items,           \* map[uint]int: mapping id -> weight
  retry,           \* loop counter
  item,            \* the key WeightedRandom returned (0: none)
  res,             \* the upstream response of the current attempt
  retryErrLog,     \* buffered channel of failure ChatLogs
  chanState,       \* "none" | "open" | "closed"
  writerPc,        \* the background log writer goroutine
  chatLogs,        \* table chat_logs, in insertion order (id = position)
  logId,           \* id SaveChatLog returned for the success row (0: none)
  client,          \* what c.Writer has received
  pipe,            \* io.Pipe between the tee and the accounting task
  acct,            \* the accounting goroutine (processer)
  attempts         \* history: one record per attempt that picked a key

storeVars == <<models, mappings, providersTbl, storeLog>>
\* what BalanceChat only reads: the request, its credentials, the clock
reqVars == <<req, auth, now, other>>
poolVars == <<llmProvidersWithLimit, providerMap, items>>
loopVars == <<retry, item, res>>
logVars == <<retryErrLog, chanState, writerPc, chatLogs, logId>>
streamVars == <<client, pipe, acct>>
vars == <<models, mappings, providersTbl, storeLog, req, auth, now, other,
          ctxDone,
          pc, result,
          llmProvidersWithLimit, providerMap, items, retry, item, res,
          retryErrLog, chanState, writerPc, chatLogs, logId, client, pipe,
          acct, attempts>>

\* ------------------------------------------------------------ helper values
NoLimit == [Providers |-> <<>>, MaxRetry |-> 0, TimeOut |-> 0, ModelID |-> 0]
NoRes == [status |-> 0, body |-> <<>>, pos |-> 0, open |-> FALSE, closes |-> 0]
NoErr == [kind |-> "none", status |-> 0, body |-> <<>>]
NoClient == [headers |-> {}, flushed |-> FALSE, delivered |-> <<>>]
NoPipe == [state |-> "none", chunk |-> <<>>, pending |-> <<>>, buf |-> <<>>,
           err |-> "none", werr |-> "none", cerr |-> "none"]
NoOther == [pc |-> "idle", maxRetry |-> 0, start |-> <<>>, items |-> <<>>,
            hist |-> <<>>, born |-> 0]
NoAcct == [pc |-> "none", starts |-> 0, logId |-> 0, seen |-> <<>>,
           updates |-> 0]

Prefix(s, n) == SubSeq(s, 1, n)
Last(sq) == sq[Len(sq)]
IsPrefix(s, t) == Len(s) <= Len(t) /\ s = SubSeq(t, 1, Len(s))
EmptyMap == <<>>
RemoveKey(m, k) == [x \in (DOMAIN m) \ {k} |-> m[x]]

\* ------------------------------------------------------------- pool resolver
\* lines 106, 110, 114: a flag excludes only when it is set, the request
\* needs the capability and the flag is false.
ExcludedNonNil(flag, need) == flag # "null" /\ need
Excluded(flag, need) == flag # "null" /\ need /\ flag = "false"

\* the loop of lines 103-123 over the loaded mappings: llmproviders maps the
\* id of each loaded mapping to its row, pm the id of each loaded provider to
\* its row
EligibleAnyProvider(row, pm, style, before) ==
  /\ ~Excluded(row.ToolCall, before.toolCall)
  /\ ~Excluded(row.StructuredOutput, before.structuredOutput)
  /\ ~Excluded(row.Image, before.image)
Eligible(row, pm, style, before) ==
  /\ ~Excluded(row.ToolCall, before.toolCall)
  /\ ~Excluded(row.StructuredOutput, before.structuredOutput)
  /\ ~Excluded(row.Image, before.image)
  /\ row.ProviderID \in DOMAIN pm
  /\ pm[row.ProviderID].Type = style

BuildItemsMap(llmproviders, pm, style, before) ==
  [m \in {x \in DOMAIN llmproviders : Eligible(llmproviders[x], pm, style, before)}
     |-> llmproviders[m].Weight]

\* deleted_at IS NULL
NotDeleted(row) == row.DeletedAt = "null"
\* the soft-delete scope gorm adds to a query on a type with a deleted_at
\* column (package models is not among the sources: the tables follow the
\* spec, 6.4)
SoftDeleteScope(tbl) == {x \in DOMAIN tbl : NotDeleted(tbl[x])}

\* gorm First on models with name = ? AND deleted_at IS NULL (lines 324-337)
ModelRowsByNameUnscoped(name) == {r \in models : r.Name = name}
ModelRowsByName(name) == {r \in models : r.Name = name /\ NotDeleted(r)}
\* gorm Find on model_with_providers with model_id = ? (line 346)
MappingsOfModel(id) ==
  [m \in {x \in SoftDeleteScope(mappings) : mappings[x].ModelID = id}
     |-> mappings[m]]
\* gorm Find on providers with id IN ? and type = ? (line 88)
ProvidersOfAnyStyle(llmproviders, style) ==
  [p \in {x \in SoftDeleteScope(providersTbl) :
            \E m \in DOMAIN llmproviders : llmproviders[m].ProviderID = x}
     |-> providersTbl[p]]
ProvidersOfStyle(llmproviders, style) ==
  [p \in {x \in SoftDeleteScope(providersTbl) :
            /\ \E m \in DOMAIN llmproviders : llmproviders[m].ProviderID = x
            /\ providersTbl[x].Type = style} |-> providersTbl[p]]

\* ------------------------------------------------------------ initial states
MappingRow(mid, pid, w, tc, so, im) ==
  [ModelID |-> mid, ProviderID |-> pid, Weight |-> w, ToolCall |-> tc,
   StructuredOutput |-> so, Image |-> im, DeletedAt |-> "null"]
ModelRow(id, name, r) ==
  [ID |-> id, Name |-> name, MaxRetry |-> r, TimeOut |-> 1, DeletedAt |-> "null"]
ProviderRow(t, ok) == [Type |-> t, CfgOk |-> ok, DeletedAt |-> "null"]
Request(model, style, stream, tc, so, im, valid) ==
  [model |-> model, style |-> style, stream |-> stream, toolCall |-> tc,
   structuredOutput |-> so, image |-> im, valid |-> valid]

\* the store as one value
Store == [models |-> models, mappings |-> mappings, providersTbl |-> providersTbl]

\* the state of a request before its handler
Untouched ==
  /\ storeLog = <<Store>>
  /\ now = 0
  /\ other = NoOther
  /\ ctxDone = FALSE
  /\ pc = "parse"
  /\ result = "none"
  /\ llmProvidersWithLimit = NoLimit
  /\ providerMap = <<>>
  /\ items = EmptyMap
  /\ retry = 0
  /\ item = 0
  /\ res = NoRes
  /\ retryErrLog = <<>>
  /\ chanState = "none"
  /\ writerPc = "none"
  /\ chatLogs = <<>>
  /\ logId = 0
  /\ client = NoClient
  /\ pipe = NoPipe
  /\ acct = NoAcct
  /\ attempts = <<>>

\* the middleware let the request through: the handler runs
PassedAuth == [kind |-> "Auth", token |-> <<>>, header |-> <<>>, pc |-> "done",
               aborted |-> FALSE, status |-> 0, handler |-> TRUE]

\* everything BalanceChat has not yet touched when it is entered (line 21)
Entry ==
  /\ auth = PassedAuth
  /\ Untouched

\* One logical model "m1" backed by every mapping, each mapping on its own
\* openai provider; mapping 1 has any weight, the others twice the largest;
\* the last mapping does not support tool calls. The request
\* either streams, or needs tool calls (and then the config of provider 1 may
\* be one providers.New rejects).
Init ==
  /\ \E r \in 1..MaxRetryBound :
       models = {ModelRow(1, "m1", r), ModelRow(2, "m2", r)}
  /\ \E w \in 1..MaxWeight :
       mappings = [m \in MappingIds |->
                     MappingRow(1, m, IF m = 1 THEN w ELSE 2 * MaxWeight,
                                IF m = LastMapping THEN "false" ELSE "null",
                                "null", "null")]
  /\ \E ok \in BOOLEAN, st \in BOOLEAN :
       /\ st => ok
       /\ providersTbl = [p \in ProviderIds |->
                            ProviderRow("openai", p # 1 \/ ok)]
       /\ req = Request("m1", "openai", st, ~st, FALSE, FALSE, TRUE)
  /\ Entry

\* The inputs of the pool resolver: mapping 1 is any row, the others vary in
\* their tool_call flag; every provider has either type; any request.
InitPool ==
  /\ models = {ModelRow(1, "m1", 1), ModelRow(2, "m2", 1)}
  /\ \E row \in {MappingRow(mid, pid, w, tc, so, im) :
                   mid \in {1, 2}, pid \in ProviderIds, w \in {1, MaxWeight},
                   tc \in Flags, so \in Flags, im \in Flags} :
       \E tcs \in [MappingIds \ {1} -> {"null", "false"}] :
         mappings = [m \in MappingIds |->
                       IF m = 1 THEN row
                       ELSE MappingRow(1, m, MaxWeight, tcs[m], "null", "null")]
  /\ providersTbl \in [ProviderIds -> {ProviderRow(t, TRUE) : t \in Styles}]
  /\ req \in {Request("m1", s, FALSE, tc, so, im, TRUE) :
                s \in Styles, tc \in BOOLEAN, so \in BOOLEAN, im \in BOOLEAN}
             \cup {Request("m3", "openai", FALSE, FALSE, FALSE, FALSE, TRUE),
                   Request("m2", "openai", FALSE, FALSE, FALSE, FALSE, TRUE),
                   Request("m1", "openai", FALSE, FALSE, FALSE, FALSE, FALSE)}
  /\ Entry

\* A store with soft-deleted rows: two model rows of the requested name (a
\* deleted one and its re-creation, or both deleted), each mapping on either
\* model, any subset of mappings and providers soft-deleted.
DeletedAts == {"null", "deleted"}
SetDeleted(row, d) == [row EXCEPT !.DeletedAt = d]
InitDeleted ==
  /\ \E dm \in [{1, 2} -> DeletedAts] :
       /\ \E i \in {1, 2} : dm[i] = "deleted"
       /\ models = {SetDeleted(ModelRow(i, "m1", MaxRetryBound), dm[i]) : i \in {1, 2}}
  /\ \E mm \in [MappingIds -> {1, 2}], ds \in [MappingIds -> DeletedAts] :
       mappings = [m \in MappingIds |->
                     SetDeleted(MappingRow(mm[m], m, 1, "null", "null", "null"),
                                ds[m])]
  /\ \E ds \in [ProviderIds -> DeletedAts] :
       providersTbl = [p \in ProviderIds |->
                         SetDeleted(ProviderRow("openai", TRUE), ds[p])]
  /\ req \in {Request("m1", "openai", st, FALSE, FALSE, FALSE, TRUE) :
                st \in BOOLEAN}
  /\ Entry

\* ------------------------------------------------------------------ returns
\* a return statement: the deferred close(retryErrLog) of line 142 and the
\* deferred res.Body.Close() of line 262 run
CloseChan(s) == IF s = "open" THEN "closed" ELSE s
CloseBodyNever(r) == r
CloseBody(r) == IF r.open THEN [r EXCEPT !.open = FALSE, !.closes = @ + 1] ELSE r

ReturnNoClose(r) ==
  /\ pc' = "done"
  /\ result' = r
  /\ chanState' = chanState

Return(r) ==
  /\ pc' = "done"
  /\ result' = r
  /\ chanState' = CloseChan(chanState)

\* ------------------------------------------------- BalanceChat, lines 21-150
\* lines 40-47: Beforer
Parse ==
  /\ pc = "parse"
  /\ IF req.valid
       THEN pc' = "queryModel" /\ UNCHANGED <<result, chanState>>
       ELSE Return("BadRequest")
  /\ UNCHANGED <<storeVars, reqVars, ctxDone, poolVars, loopVars, retryErrLog,
                 writerPc, chatLogs, logId, streamVars, attempts>>

\* lines 324-337: the model row by name
QueryModel ==
  /\ pc = "queryModel"
  /\ IF ModelRowsByName(req.model) = {}
       THEN /\ Return("ModelNotFound")
            /\ UNCHANGED llmProvidersWithLimit
       ELSE /\ \E row \in ModelRowsByName(req.model) :
                 llmProvidersWithLimit' =
                   [Providers |-> <<>>, MaxRetry |-> row.MaxRetry,
                    TimeOut |-> row.TimeOut, ModelID |-> row.ID]
            /\ pc' = "queryMappings"
            /\ UNCHANGED <<result, chanState>>
  /\ UNCHANGED <<storeVars, reqVars, ctxDone, providerMap, items, loopVars,
                 retryErrLog, writerPc, chatLogs, logId, streamVars, attempts>>

\* lines 346-375: the mappings of the model
QueryMappings ==
  /\ pc = "queryMappings"
  /\ LET ms == MappingsOfModel(llmProvidersWithLimit.ModelID) IN
       IF DOMAIN ms = {}
         THEN /\ Return("NoMappings")
              /\ UNCHANGED llmProvidersWithLimit
         ELSE /\ llmProvidersWithLimit' =
                   [llmProvidersWithLimit EXCEPT !.Providers = ms]
              /\ pc' = "queryProviders"
              /\ UNCHANGED <<result, chanState>>
  /\ UNCHANGED <<storeVars, reqVars, ctxDone, providerMap, items, loopVars,
                 retryErrLog, writerPc, chatLogs, logId, streamVars, attempts>>

\* lines 83-101: the providers of the request style
QueryProviders ==
  /\ pc = "queryProviders"
  /\ LET ps == ProvidersOfStyle(llmProvidersWithLimit.Providers, req.style) IN
       IF DOMAIN ps = {}
         THEN /\ Return("NoProviderForStyle")
              /\ UNCHANGED providerMap
         ELSE /\ providerMap' = ps
              /\ pc' = "buildItems"
              /\ UNCHANGED <<result, chanState>>
  /\ UNCHANGED <<storeVars, reqVars, ctxDone, llmProvidersWithLimit, items,
                 loopVars, retryErrLog, writerPc, chatLogs, logId, streamVars,
                 attempts>>

\* lines 103-150: the weight table, the channel and its writer
BuildItems ==
  /\ pc = "buildItems"
  /\ LET tbl == BuildItemsMap(llmProvidersWithLimit.Providers, providerMap,
                              req.style, req) IN
       IF DOMAIN tbl = {}
         THEN /\ Return("NoValidProvider")
              /\ UNCHANGED <<items, writerPc>>
         ELSE /\ items' = tbl
              /\ chanState' = "open"
              /\ writerPc' = "running"
              /\ pc' = "loop"
              /\ UNCHANGED result
  /\ UNCHANGED <<storeVars, reqVars, ctxDone, llmProvidersWithLimit,
                 providerMap, loopVars, retryErrLog, chatLogs, logId,
                 streamVars, attempts>>

\* ------------------------------------------------------ balancer (package
\* balancer is not among the sources: WeightedRandom follows the spec, 4.A)
RECURSIVE Total(_)
Total(m) ==
  IF DOMAIN m = {} THEN 0
  ELSE LET k == CHOOSE x \in DOMAIN m : TRUE IN m[k] + Total(RemoveKey(m, k))

Orders(m) ==
  {o \in [1..Cardinality(DOMAIN m) -> DOMAIN m] :
     \A i, j \in DOMAIN o : i # j => o[i] # o[j]}

\* the first key, in entry order o, whose running sum exceeds the draw d
RECURSIVE Scan(_, _, _, _)
Scan(m, o, i, d) ==
  IF d < m[o[i]] THEN o[i] ELSE Scan(m, o, i + 1, d - m[o[i]])

WeightedRandom(m) ==
  {Scan(m, o, 1, d) : o \in Orders(m), d \in 0..(Total(m) - 1)}

\* --------------------------------------------------------------- ChatLog rows
\* lines 202-210
NewLogRetryZero(row, n) ==
  [Status |-> "success", Retry |-> 0, Mapping |-> row.ID,
   Provider |-> row.ProviderID, Error |-> NoErr]
NewLog(row, n) ==
  [Status |-> "success", Retry |-> n, Mapping |-> row.ID,
   Provider |-> row.ProviderID, Error |-> NoErr]
\* models.ChatLog.WithError (package models is not among the sources)
WithError(log, err) == [log EXCEPT !.Status = "error", !.Error = err]
TransportErr == [kind |-> "transport", status |-> 0, body |-> <<>>]
\* line 246: fmt.Errorf("status: %d, body: %s", ...)
StatusErr(st, body) == [kind |-> "status", status |-> st, body |-> body]

\* the log of the current attempt
CurLog == NewLog([ID |-> item,
                  ProviderID |-> llmProvidersWithLimit.Providers[item].ProviderID],
                 retry)

\* -------------------------------------------------------- outcome of a call
\* line 234
IsSuccessStatus(st) == st = StatusOK

\* line 254: items[*item] -= items[*item] / 3
PenalizeHalf(w) == w - (w \div 2)
PenalizeUp(w) == w + (w \div 3)
PenalizeThird(w) == w \div 3
Penalize(w) == w - (w \div 3)

\* lines 248-258
AfterStatusKeep(m, k, st) == m
AfterStatus(m, k, st) ==
  IF st = StatusTooManyRequests
    THEN [m EXCEPT ![k] = Penalize(@)]
    ELSE RemoveKey(m, k)

\* history: the last attempt's record gets its outcome
Outcome(kind, st, after) ==
  [attempts EXCEPT ![Len(attempts)] =
     [@ EXCEPT !.kind = kind, !.status = st, !.after = after]]

\* ------------------------------------------------ BalanceChat, lines 152-303
\* line 166: the channel of a timer made at tick created for timeout seconds
\* is ready once that time has passed
TimeAfterReady(created, timeout) == now - created >= timeout * TicksPerSecond

\* a loop that makes one attempt more
LoopCheckOffByOne ==
  /\ pc = "loop"
  /\ IF retry > llmProvidersWithLimit.MaxRetry THEN Return("MaxRetry")
     ELSE IF ctxDone THEN Return("Cancelled")
     ELSE pc' = "pick" /\ UNCHANGED <<result, chanState>>
  /\ UNCHANGED <<storeVars, reqVars, ctxDone, poolVars, loopVars, retryErrLog,
                 writerPc, chatLogs, logId, streamVars, attempts>>

\* a select that takes its default case whatever the context
LoopCheckIgnoreCtx ==
  /\ pc = "loop"
  /\ IF retry >= llmProvidersWithLimit.MaxRetry THEN Return("MaxRetry")
     ELSE pc' = "pick" /\ UNCHANGED <<result, chanState>>
  /\ UNCHANGED <<storeVars, reqVars, ctxDone, poolVars, loopVars, retryErrLog,
                 writerPc, chatLogs, logId, streamVars, attempts>>

\* lines 152-172: the loop condition and the select statement. time.After
\* makes its timer when the select is evaluated, at the current tick; the
\* default case is taken when neither channel is ready
LoopCheck ==
  /\ pc = "loop"
  /\ IF retry >= llmProvidersWithLimit.MaxRetry THEN Return("MaxRetry")
     ELSE IF ctxDone THEN Return("Cancelled")
     ELSE IF TimeAfterReady(now, llmProvidersWithLimit.TimeOut)
       THEN Return("RetryTimeout")
     ELSE pc' = "pick" /\ UNCHANGED <<result, chanState>>
  /\ UNCHANGED <<storeVars, reqVars, ctxDone, poolVars, loopVars, retryErrLog,
                 writerPc, chatLogs, logId, streamVars, attempts>>

\* an empty pool that only costs an attempt
PickContinueOnEmpty ==
  /\ pc = "pick"
  /\ IF DOMAIN items = {}
       THEN /\ retry' = retry + 1
            /\ pc' = "loop"
            /\ UNCHANGED <<item, attempts>>
       ELSE /\ \E k \in WeightedRandom(items) :
                 /\ item' = k
                 /\ attempts' = Append(attempts,
                      [key |-> k, retry |-> retry, kind |-> "pending",
                       status |-> 0, before |-> items, after |-> items,
                       at |-> now])
            /\ pc' = "new"
            /\ UNCHANGED retry
  /\ UNCHANGED <<storeVars, reqVars, ctxDone, poolVars, res, result, chanState,
                 retryErrLog, writerPc, chatLogs, logId, streamVars>>

\* lines 174-183
Pick ==
  /\ pc = "pick"
  /\ IF DOMAIN items = {}
       THEN /\ Return("EmptyPool")
            /\ UNCHANGED <<item, attempts>>
       ELSE /\ \E k \in WeightedRandom(items) :
                 /\ item' = k
                 /\ attempts' = Append(attempts,
                      [key |-> k, retry |-> retry, kind |-> "pending",
                       status |-> 0, before |-> items, after |-> items,
                       at |-> now])
            /\ pc' = "new"
            /\ UNCHANGED <<result, chanState>>
  /\ UNCHANGED <<storeVars, reqVars, ctxDone, poolVars, retry, res,
                 retryErrLog, writerPc, chatLogs, logId, streamVars>>

\* lines 185-212: providers.New on the selected provider's config
\* an adapter error that drops the entry and goes on to the next attempt
NewAdapterRetry ==
  /\ pc = "new"
  /\ IF providerMap[llmProvidersWithLimit.Providers[item].ProviderID].CfgOk
       THEN pc' = "call" /\ UNCHANGED <<items, retry, attempts>>
       ELSE /\ items' = RemoveKey(items, item)
            /\ retry' = retry + 1
            /\ attempts' = Outcome("newErr", 0, items')
            /\ pc' = "loop"
  /\ UNCHANGED <<storeVars, reqVars, ctxDone, result, llmProvidersWithLimit,
                 providerMap, item, res, retryErrLog, chanState, writerPc,
                 chatLogs, logId, streamVars>>

NewAdapter ==
  /\ pc = "new"
  /\ IF providerMap[llmProvidersWithLimit.Providers[item].ProviderID].CfgOk
       THEN pc' = "call" /\ UNCHANGED <<result, chanState, attempts>>
       ELSE Return("NewAdapterErr") /\ attempts' = Outcome("newErr", 0, items)
  /\ UNCHANGED <<storeVars, reqVars, ctxDone, poolVars, loopVars, retryErrLog,
                 writerPc, chatLogs, logId, streamVars>>

\* line 141: make(chan models.ChatLog, llmProvidersWithLimit.MaxRetry)
ChanCapOne(limit) == 1
ChanCap(limit) == limit.MaxRetry

\* a send on the buffered channel blocks while the buffer is full
CanSend == Len(retryErrLog) < ChanCap(llmProvidersWithLimit)

\* lines 220-232: chatModel.Chat fails
\* a failed call that leaves the entry in the weight map
CallTransportErrorKeepsKey ==
  /\ pc = "call"
  /\ CanSend
  /\ retryErrLog' = Append(retryErrLog, WithError(CurLog, TransportErr))
  /\ attempts' = Outcome("transport", 0, items)
  /\ retry' = retry + 1
  /\ pc' = "loop"
  /\ UNCHANGED <<storeVars, reqVars, ctxDone, result, poolVars, item, res,
                 chanState, writerPc, chatLogs, logId, streamVars>>

CallTransportError ==
  /\ pc = "call"
  /\ CanSend
  /\ retryErrLog' = Append(retryErrLog, WithError(CurLog, TransportErr))
  /\ items' = RemoveKey(items, item)
  /\ attempts' = Outcome("transport", 0, items')
  /\ retry' = retry + 1
  /\ pc' = "loop"
  /\ UNCHANGED <<storeVars, reqVars, ctxDone, result, llmProvidersWithLimit,
                 providerMap, item, res, chanState, writerPc, chatLogs, logId,
                 streamVars>>

\* line 220: chatModel.Chat returns a response; a cancelled context aborts
\* the call
CallResponseWith(sts) ==
  /\ pc = "call"
  /\ ~ctxDone
  /\ \E st \in sts :
       \E body \in (IF IsSuccessStatus(st) THEN Bodies ELSE ErrBodies) :
         res' = [status |-> st, body |-> body, pos |-> 0, open |-> TRUE,
                 closes |-> 0]
  /\ pc' = "classify"
  /\ UNCHANGED <<storeVars, reqVars, ctxDone, result, poolVars, retry, item,
                 logVars, streamVars, attempts>>

CallResponse == CallResponseWith(Statuses)

\* a failed status whose body is left open
ClassifyFailLeavesBody ==
  /\ pc = "classify"
  /\ ~IsSuccessStatus(res.status)
  /\ CanSend
  /\ retryErrLog' = Append(retryErrLog,
                           WithError(CurLog, StatusErr(res.status, res.body)))
  /\ items' = AfterStatus(items, item, res.status)
  /\ attempts' = Outcome("status", res.status, items')
  /\ res' = [res EXCEPT !.pos = Len(res.body)]
  /\ retry' = retry + 1
  /\ pc' = "loop"
  /\ UNCHANGED <<storeVars, reqVars, ctxDone, result, llmProvidersWithLimit,
                 providerMap, item, chanState, writerPc, chatLogs, logId,
                 streamVars>>

\* a penalty that is also written to the weight of the mapping row
ClassifyFailPersists ==
  /\ pc = "classify"
  /\ ~IsSuccessStatus(res.status)
  /\ CanSend
  /\ retryErrLog' = Append(retryErrLog,
                           WithError(CurLog, StatusErr(res.status, res.body)))
  /\ items' = AfterStatus(items, item, res.status)
  /\ mappings' = IF res.status = StatusTooManyRequests
                   THEN [mappings EXCEPT ![item].Weight = Penalize(@)]
                   ELSE mappings
  /\ attempts' = Outcome("status", res.status, items')
  /\ res' = CloseBody([res EXCEPT !.pos = Len(res.body)])
  /\ retry' = retry + 1
  /\ pc' = "loop"
  /\ UNCHANGED <<models, providersTbl, storeLog, reqVars, ctxDone, result,
                 llmProvidersWithLimit, providerMap, item, chanState, writerPc,
                 chatLogs, logId, streamVars>>

\* lines 234-261: a status other than 200
ClassifyFail ==
  /\ pc = "classify"
  /\ ~IsSuccessStatus(res.status)
  /\ CanSend
  /\ retryErrLog' = Append(retryErrLog,
                           WithError(CurLog, StatusErr(res.status, res.body)))
  /\ items' = AfterStatus(items, item, res.status)
  /\ attempts' = Outcome("status", res.status, items')
  /\ res' = CloseBody([res EXCEPT !.pos = Len(res.body)])
  /\ retry' = retry + 1
  /\ pc' = "loop"
  /\ UNCHANGED <<storeVars, reqVars, ctxDone, result, llmProvidersWithLimit,
                 providerMap, item, chanState, writerPc, chatLogs, logId,
                 streamVars>>

\* lines 262-273: status 200, SaveChatLog(ctx, log) inserts the success row;
\* the insert fails on a cancelled context or a store error
\* a save that returns an id without storing the row
SaveSuccessLogSkipInsert ==
  /\ pc = "classify"
  /\ IsSuccessStatus(res.status)
  /\ ~ctxDone
  /\ logId' = Len(chatLogs) + 1
  /\ attempts' = Outcome("success", res.status, items)
  /\ pc' = "spawn"
  /\ UNCHANGED <<storeVars, reqVars, ctxDone, result, poolVars, loopVars,
                 retryErrLog, chanState, writerPc, chatLogs, streamVars>>

SaveSuccessLog ==
  /\ pc = "classify"
  /\ IsSuccessStatus(res.status)
  /\ ~ctxDone
  /\ chatLogs' = Append(chatLogs, CurLog)
  /\ logId' = Len(chatLogs) + 1
  /\ attempts' = Outcome("success", res.status, items)
  /\ pc' = "spawn"
  /\ UNCHANGED <<storeVars, reqVars, ctxDone, result, poolVars, loopVars,
                 retryErrLog, chanState, writerPc, streamVars>>

\* a failed insert that drops the entry and goes on to the next attempt
SaveSuccessLogFailRetry ==
  /\ pc = "classify"
  /\ IsSuccessStatus(res.status)
  /\ res' = CloseBody(res)
  /\ items' = RemoveKey(items, item)
  /\ attempts' = Outcome("saveErr", res.status, items')
  /\ retry' = retry + 1
  /\ pc' = "loop"
  /\ UNCHANGED <<storeVars, reqVars, ctxDone, result, llmProvidersWithLimit,
                 providerMap, item, logVars, streamVars>>

SaveSuccessLogFail ==
  /\ pc = "classify"
  /\ IsSuccessStatus(res.status)
  /\ Return("SaveErr")
  /\ res' = CloseBody(res)
  /\ attempts' = Outcome("saveErr", res.status, items)
  /\ UNCHANGED <<storeVars, reqVars, ctxDone, poolVars, retry, item,
                 retryErrLog, writerPc, chatLogs, logId, streamVars>>

\* lines 275-282: the pipe, the tee and the accounting goroutine
SpawnAccounting ==
  /\ pc = "spawn"
  /\ pipe' = [pipe EXCEPT !.state = "open"]
  /\ acct' = [acct EXCEPT !.pc = "running", !.starts = @ + 1,
                           !.logId = logId]
  /\ pc' = "headers"
  /\ UNCHANGED <<storeVars, reqVars, ctxDone, result, poolVars, loopVars,
                 logVars, client, attempts>>

\* lines 284-290
StreamHeadersNoCache == {<<"Content-Type", "text/event-stream">>}
StreamHeaders == {<<"Content-Type", "text/event-stream">>, <<"Cache-Control", "no-cache">>}
JsonHeaders == {<<"Content-Type", "application/json">>}

FlushHeaders ==
  /\ pc = "headers"
  /\ client' = [client EXCEPT
                  !.headers = IF req.stream THEN StreamHeaders ELSE JsonHeaders,
                  !.flushed = TRUE]
  /\ pc' = "copyRead"
  /\ UNCHANGED <<storeVars, reqVars, ctxDone, result, poolVars, loopVars,
                 logVars, pipe, acct, attempts>>

\* pw.Close() / pw.CloseWithError(err)
CloseWriterOnEOF(p, e) ==
  IF p.state = "open" /\ e = "EOF"
    THEN [p EXCEPT !.state = "wclosed", !.werr = e] ELSE p
CloseWriter(p, e) ==
  IF p.state = "open" THEN [p EXCEPT !.state = "wclosed", !.werr = e] ELSE p

\* the bytes one Read of the upstream body may return
ChunkSizes(r) == 1..(Len(r.body) - r.pos)

\* line 291, io.Copy -> tee.Read -> res.Body.Read returns n > 0 bytes, which
\* the tee then writes to the pipe
CopyRead ==
  /\ pc = "copyRead"
  /\ res.pos < Len(res.body)
  /\ \E n \in ChunkSizes(res) :
       /\ pipe' = [pipe EXCEPT !.chunk = SubSeq(res.body, res.pos + 1, res.pos + n),
                               !.pending = SubSeq(res.body, res.pos + 1, res.pos + n)]
       /\ res' = [res EXCEPT !.pos = @ + n]
  /\ pc' = "teeWrite"
  /\ UNCHANGED <<storeVars, reqVars, ctxDone, result, poolVars, retry, item,
                 logVars, client, acct, attempts>>

\* lines 291, 296-298: the body is at EOF, io.Copy returns nil
CopyEOF ==
  /\ pc = "copyRead"
  /\ res.pos = Len(res.body)
  /\ pipe' = CloseWriter(pipe, "EOF")
  /\ res' = CloseBody(res)
  /\ Return("nil")
  /\ UNCHANGED <<storeVars, reqVars, ctxDone, poolVars, retry, item,
                 retryErrLog, writerPc, chatLogs, logId, client, acct, attempts>>

\* lines 291-294: the read of the upstream body fails (connection error,
\* cancelled context)
CopyReadError ==
  /\ pc = "copyRead"
  /\ pipe' = CloseWriter([pipe EXCEPT !.cerr = "readErr"], "readErr")
  /\ res' = CloseBody(res)
  /\ Return("CopyErr")
  /\ UNCHANGED <<storeVars, reqVars, ctxDone, poolVars, retry, item,
                 retryErrLog, writerPc, chatLogs, logId, client, acct, attempts>>

\* a tee whose reader side hands io.Copy nothing of the chunk
TeeWriteDoneDropsChunk ==
  /\ pc = "teeWrite"
  /\ pipe.pending = <<>>
  /\ pipe' = [pipe EXCEPT !.buf = <<>>, !.err = "none"]
  /\ pc' = "clientWrite"
  /\ UNCHANGED <<storeVars, reqVars, ctxDone, result, poolVars, loopVars,
                 logVars, client, acct, attempts>>

\* io.TeeReader: pw.Write returned after the reader took the whole chunk
TeeWriteDone ==
  /\ pc = "teeWrite"
  /\ pipe.pending = <<>>
  /\ pipe' = [pipe EXCEPT !.buf = pipe.chunk, !.err = "none"]
  /\ pc' = "clientWrite"
  /\ UNCHANGED <<storeVars, reqVars, ctxDone, result, poolVars, loopVars,
                 logVars, client, acct, attempts>>

\* io.TeeReader: pw.Write fails on a closed reader; Read returns the bytes
\* the pipe took and io.ErrClosedPipe
TeeWriteClosed ==
  /\ pc = "teeWrite"
  /\ pipe.pending # <<>>
  /\ pipe.state = "rclosed"
  /\ pipe' = [pipe EXCEPT
                !.buf = Prefix(pipe.chunk, Len(pipe.chunk) - Len(pipe.pending)),
                !.pending = <<>>,
                !.err = "ErrClosedPipe"]
  /\ pc' = "clientWrite"
  /\ UNCHANGED <<storeVars, reqVars, ctxDone, result, poolVars, loopVars,
                 logVars, client, acct, attempts>>

\* what c.Writer holds after a Write of buf
DeliveredSwapped(d, buf) == buf \o d
Delivered(d, buf) == d \o buf

\* io.Copy: dst.Write(buf) succeeds; a pending read error ends the copy
\* (lines 292-293)
ClientWrite ==
  /\ pc = "clientWrite"
  /\ client' = [client EXCEPT !.delivered = Delivered(@, pipe.buf)]
  /\ IF pipe.err = "none"
       THEN /\ pc' = "copyRead"
            /\ pipe' = [pipe EXCEPT !.buf = <<>>]
            /\ UNCHANGED <<result, chanState, res>>
       ELSE /\ pipe' = CloseWriter([pipe EXCEPT !.buf = <<>>, !.cerr = pipe.err],
                                    pipe.err)
            /\ res' = CloseBody(res)
            /\ Return("CopyErr")
  /\ UNCHANGED <<storeVars, reqVars, ctxDone, poolVars, retry, item,
                 retryErrLog, writerPc, chatLogs, logId, acct, attempts>>

\* a copy error that goes on to the next attempt instead of returning
ClientWriteFailRetry ==
  /\ pc = "clientWrite"
  /\ pipe.buf # <<>>
  /\ \E n \in 0..(Len(pipe.buf) - 1) :
       client' = [client EXCEPT !.delivered = Delivered(@, Prefix(pipe.buf, n))]
  /\ pipe' = CloseWriter([pipe EXCEPT !.buf = <<>>, !.cerr = "writeErr"],
                         "writeErr")
  /\ res' = CloseBody(res)
  /\ retry' = retry + 1
  /\ pc' = "loop"
  /\ UNCHANGED <<storeVars, reqVars, ctxDone, result, poolVars, item, logVars,
                 acct, attempts>>

\* io.Copy: dst.Write(buf) fails after a part of buf (the client is gone)
ClientWriteFail ==
  /\ pc = "clientWrite"
  /\ pipe.buf # <<>>
  /\ \E n \in 0..(Len(pipe.buf) - 1) :
       client' = [client EXCEPT !.delivered = Delivered(@, Prefix(pipe.buf, n))]
  /\ pipe' = CloseWriter([pipe EXCEPT !.buf = <<>>, !.cerr = "writeErr"],
                         "writeErr")
  /\ res' = CloseBody(res)
  /\ Return("CopyErr")
  /\ UNCHANGED <<storeVars, reqVars, ctxDone, poolVars, retry, item,
                 retryErrLog, writerPc, chatLogs, logId, acct, attempts>>

\* ------------------------------------ the accounting goroutine, lines 279-282
\* processer (not among the sources; spec, 4.F): it updates the ChatLog row
\* once, when it stops reading, with what it has parsed
ProcesserReturn(a) == [a EXCEPT !.pc = "done", !.updates = @ + 1]

\* processer reads from pr
AcctRead ==
  /\ acct.pc = "running"
  /\ pipe.pending # <<>>
  /\ pipe.state = "open"
  /\ \E n \in 1..Len(pipe.pending) :
       /\ acct' = [acct EXCEPT !.seen = @ \o Prefix(pipe.pending, n)]
       /\ pipe' = [pipe EXCEPT !.pending = SubSeq(@, n + 1, Len(@))]
  /\ UNCHANGED <<storeVars, reqVars, ctxDone, pc, result, poolVars, loopVars,
                 logVars, client, attempts>>

\* processer reads the end of the stream, updates the ChatLog row and returns
AcctFinish ==
  /\ acct.pc = "running"
  /\ pipe.state = "wclosed"
  /\ acct' = ProcesserReturn(acct)
  /\ UNCHANGED <<storeVars, reqVars, ctxDone, pc, result, poolVars, loopVars,
                 logVars, client, pipe, attempts>>

\* processer returns before the end of the stream (a parse error); the
\* deferred pr.Close()
AcctAbort ==
  /\ acct.pc = "running"
  /\ pipe.state = "open"
  /\ acct' = ProcesserReturn(acct)
  /\ pipe' = [pipe EXCEPT !.state = "rclosed"]
  /\ UNCHANGED <<storeVars, reqVars, ctxDone, pc, result, poolVars, loopVars,
                 logVars, client, attempts>>

\* ------------------------------------- the log writer goroutine, lines 143-150
\* SaveChatLog(context.Background(), log) inserts the row
WriterSave ==
  /\ writerPc = "running"
  /\ retryErrLog # <<>>
  /\ chatLogs' = Append(chatLogs, Head(retryErrLog))
  /\ retryErrLog' = Tail(retryErrLog)
  /\ UNCHANGED <<storeVars, reqVars, ctxDone, pc, result, poolVars, loopVars,
                 chanState, writerPc, logId, streamVars, attempts>>

\* SaveChatLog fails: the error is logged and the row is lost (lines 146-148)
WriterSaveFail ==
  /\ writerPc = "running"
  /\ retryErrLog # <<>>
  /\ retryErrLog' = Tail(retryErrLog)
  /\ UNCHANGED <<storeVars, reqVars, ctxDone, pc, result, poolVars, loopVars,
                 chanState, writerPc, chatLogs, logId, streamVars, attempts>>

\* the range loop ends on the closed, drained channel
WriterExit ==
  /\ writerPc = "running"
  /\ chanState = "closed"
  /\ retryErrLog = <<>>
  /\ writerPc' = "exit"
  /\ UNCHANGED <<storeVars, reqVars, ctxDone, pc, result, poolVars, loopVars,
                 retryErrLog, chanState, chatLogs, logId, streamVars, attempts>>

\* --------------------------------------------------------------- environment
\* the client goes away: the request context is cancelled
CancelCtx ==
  /\ ~ctxDone
  /\ pc # "done"
  /\ ctxDone' = TRUE
  /\ UNCHANGED <<storeVars, reqVars, pc, result, poolVars, loopVars, logVars,
                 streamVars, attempts>>

Next ==
  \/ Parse \/ QueryModel \/ QueryMappings \/ QueryProviders \/ BuildItems
  \/ LoopCheck \/ Pick \/ NewAdapter
  \/ CallTransportError \/ CallResponse \/ ClassifyFail
  \/ SaveSuccessLog \/ SaveSuccessLogFail
  \/ SpawnAccounting \/ FlushHeaders
  \/ CopyRead \/ CopyEOF \/ CopyReadError
  \/ TeeWriteDone \/ TeeWriteClosed \/ ClientWrite \/ ClientWriteFail
  \/ AcctRead \/ AcctFinish \/ AcctAbort
  \/ WriterSave \/ WriterSaveFail \/ WriterExit
  \/ CancelCtx

Spec == Init /\ [][Next]_vars

NextPool == Parse \/ QueryModel \/ QueryMappings \/ QueryProviders \/ BuildItems

SpecPool == InitPool /\ [][NextPool]_vars

\* ------------------------------------- a second request for the same model
\* a second call of BalanceChat with the same request, running beside the
\* first against upstreams that fail: its own llmProvidersWithLimit and items
\* (lines 40-58, 83-123) and its own loop (lines 152-258)
OtherBegin ==
  /\ other.pc = "idle"
  /\ \E row \in ModelRowsByName(req.model) :
       LET ms == MappingsOfModel(row.ID)
           tbl == BuildItemsMap(ms, ProvidersOfStyle(ms, req.style),
                                req.style, req) IN
         other' = [other EXCEPT !.pc = IF DOMAIN tbl = {} THEN "done" ELSE "loop",
                                !.maxRetry = row.MaxRetry,
                                !.start = tbl,
                                !.items = tbl,
                                !.born = Len(attempts)]
  /\ UNCHANGED <<storeVars, req, auth, now, ctxDone, pc, result, poolVars,
                 loopVars, logVars, streamVars, attempts>>

\* one attempt of the second request: the pick (line 173) and the failure of
\* the call with a status that is not 200 (lines 248-258)
OtherAttempt ==
  /\ other.pc = "loop"
  /\ Len(other.hist) < other.maxRetry
  /\ DOMAIN other.items # {}
  /\ \E k \in WeightedRandom(other.items),
        out \in {StatusTooManyRequests, 500} :
       LET after == AfterStatus(other.items, k, out) IN
         other' = [other EXCEPT
                     !.items = after,
                     !.hist = Append(@, [key |-> k, status |-> out,
                                         before |-> other.items,
                                         after |-> after])]
  /\ UNCHANGED <<storeVars, req, auth, now, ctxDone, pc, result, poolVars,
                 loopVars, logVars, streamVars, attempts>>

\* lines 155-161, 174-181: the second request is out of retries or of entries
OtherReturn ==
  /\ other.pc = "loop"
  /\ Len(other.hist) >= other.maxRetry \/ DOMAIN other.items = {}
  /\ other' = [other EXCEPT !.pc = "done"]
  /\ UNCHANGED <<storeVars, req, auth, now, ctxDone, pc, result, poolVars,
                 loopVars, logVars, streamVars, attempts>>

InitTwo ==
  /\ \E r \in 1..MaxRetryBound : models = {ModelRow(1, "m1", r)}
  /\ \E w \in [MappingIds -> 1..MaxWeight] :
       mappings = [m \in MappingIds |->
                     MappingRow(1, m, w[m], "null", "null", "null")]
  /\ providersTbl = [p \in ProviderIds |-> ProviderRow("openai", TRUE)]
  /\ req = Request("m1", "openai", FALSE, FALSE, FALSE, FALSE, TRUE)
  /\ Entry

\* every upstream call ends in a 429 or a 500; the failure logs stay in the
\* channel
NextTwo ==
  \/ NextPool
  \/ LoopCheck \/ Pick \/ NewAdapter
  \/ CallResponseWith({StatusTooManyRequests, 500})
  \/ ClassifyFail
  \/ OtherBegin \/ OtherAttempt \/ OtherReturn

SpecTwo == InitTwo /\ [][NextTwo]_vars

\* ------------------------------ any pool, upstreams that answer 429 or 500
\* one model whose mappings sit on either provider, with either weight and
\* with or without tool calls; every provider has either type; a request of
\* either style, with or without tool calls
InitLookup ==
  /\ models = {ModelRow(1, "m1", MaxRetryBound)}
  /\ \E pids \in [MappingIds -> ProviderIds],
        ws \in [MappingIds -> {1, MaxWeight}],
        tcs \in [MappingIds -> {"null", "false"}] :
       mappings = [m \in MappingIds |->
                     MappingRow(1, pids[m], ws[m], tcs[m], "null", "null")]
  /\ providersTbl \in [ProviderIds -> {ProviderRow(t, TRUE) : t \in Styles}]
  /\ req \in {Request("m1", s, FALSE, tc, FALSE, FALSE, TRUE) :
                s \in Styles, tc \in BOOLEAN}
  /\ Entry

\* the resolver followed by the dispatch loop against upstreams that fail
NextLookup ==
  \/ NextPool
  \/ LoopCheck \/ Pick \/ NewAdapter
  \/ CallResponseWith({StatusTooManyRequests, 500})
  \/ ClassifyFail

SpecLookup == InitLookup /\ [][NextLookup]_vars

\* --------------------------- a provider whose configuration cannot be used
\* two eligible mappings of one model; the configuration of provider 1 is
\* rejected by providers.New, that of provider 2 is accepted
InitAdapter ==
  /\ \E r \in 1..(MaxRetryBound + 1) : models = {ModelRow(1, "m1", r)}
  /\ \E w \in [MappingIds -> 1..MaxWeight] :
       mappings = [m \in MappingIds |->
                     MappingRow(1, m, w[m], "null", "null", "null")]
  /\ providersTbl = [p \in ProviderIds |-> ProviderRow("openai", p # 1)]
  /\ req \in {Request("m1", "openai", st, FALSE, FALSE, FALSE, TRUE) :
                st \in BOOLEAN}
  /\ Entry

SpecAdapter == InitAdapter /\ [][Next]_vars

\* ------------------------------------------- upstreams that always fail
\* the timeout of the http client of an attempt (line 212), in ticks
ClientTimeout(timeout) == (timeout * TicksPerSecond) \div 3

\* time passes while an upstream call is in flight, up to the client timeout
Tick ==
  /\ pc = "call"
  /\ now - Last(attempts).at < ClientTimeout(llmProvidersWithLimit.TimeOut)
  /\ now' = now + 1
  /\ UNCHANGED <<storeVars, req, auth, other, ctxDone, pc, result, poolVars,
                 loopVars, logVars, streamVars, attempts>>

\* a model with more attempts than mappings: max_retry is 5 with the bounds
\* as they are; two mappings of any weight
InitExhaust ==
  /\ models = {ModelRow(1, "m1", MaxRetryBound + 3)}
  /\ \E w \in [MappingIds -> 1..MaxWeight] :
       mappings = [m \in MappingIds |->
                     MappingRow(1, m, w[m], "null", "null", "null")]
  /\ providersTbl = [p \in ProviderIds |-> ProviderRow("openai", TRUE)]
  /\ req = Request("m1", "openai", FALSE, FALSE, FALSE, FALSE, TRUE)
  /\ Entry

\* every upstream call ends in a transport error or a 500; the store works
\* and the client stays
NextExhaust ==
  \/ NextPool
  \/ LoopCheck \/ Pick \/ NewAdapter
  \/ CallTransportError \/ CallResponseWith({500}) \/ ClassifyFail
  \/ WriterSave \/ WriterExit

SpecExhaust == InitExhaust /\ [][NextExhaust]_vars

\* the same model over one mapping
InitTimer ==
  /\ models = {ModelRow(1, "m1", MaxRetryBound + 3)}
  /\ \E w \in 1..MaxWeight :
       mappings = [m \in {1} |-> MappingRow(1, 1, w, "null", "null", "null")]
  /\ providersTbl = [p \in ProviderIds |-> ProviderRow("openai", TRUE)]
  /\ req \in {Request("m1", "openai", st, FALSE, FALSE, FALSE, TRUE) :
                st \in BOOLEAN}
  /\ Entry

\* every upstream call ends in a 429, after some time
NextTimer ==
  \/ NextPool
  \/ LoopCheck \/ Pick \/ NewAdapter
  \/ CallResponseWith({StatusTooManyRequests}) \/ ClassifyFail
  \/ WriterSave \/ WriterExit
  \/ Tick

SpecTimer == InitTimer /\ [][NextTimer]_vars

\* ------------------------------------------------- middleware/auth.go
\* strings are sequences of characters
Bearer == <<"B", "e", "a", "r", "e", "r">>
Chars == {"k", "x", " "}
Strings == UNION {[1..n -> Chars] : n \in 0..MaxTokenLen}
\* header values: none, a bare credential, a scheme word and a credential
\* with no, one or two spaces between them
Schemes == {<<>>, Bearer, <<"b">> \o Tail(Bearer), Prefix(Bearer, 4)}
Headers ==
  {sch \o sep \o cred :
     sch \in Schemes, sep \in {<<>>, <<" ">>, <<" ", " ">>}, cred \in Strings}

\* strings.SplitN(s, " ", 2): split at the first space, if there is one
SplitN2(h) ==
  IF \E i \in DOMAIN h : h[i] = " "
    THEN LET i == CHOOSE x \in DOMAIN h :
                    h[x] = " " /\ \A y \in 1..(x - 1) : h[y] # " "
         IN <<SubSeq(h, 1, i - 1), SubSeq(h, i + 1, Len(h))>>
    ELSE <<h>>

\* Auth, lines 12-60: TRUE when the middleware returns without c.Abort()
AuthPassesAnyScheme(token, authHeader) ==
  \/ token = <<>>
  \/ /\ authHeader # <<>>
     /\ Len(SplitN2(authHeader)) = 2
     /\ SplitN2(authHeader)[2] = token
AuthPasses(token, authHeader) ==
  \/ token = <<>>
  \/ /\ authHeader # <<>>
     /\ Len(SplitN2(authHeader)) = 2 /\ SplitN2(authHeader)[1] = Bearer
     /\ SplitN2(authHeader)[2] = token

\* AuthAnthropic, lines 62-97
AuthAnthropicPasses(koken, authHeader) ==
  \/ koken = <<>>
  \/ authHeader # <<>> /\ authHeader = koken

\* a request arrives at one of the two middlewares
InitAuth ==
  /\ models = {ModelRow(1, "m1", 1)}
  /\ mappings = [m \in MappingIds |-> MappingRow(1, m, 1, "null", "null", "null")]
  /\ providersTbl = [p \in ProviderIds |-> ProviderRow("openai", TRUE)]
  /\ req = Request("m1", "openai", FALSE, FALSE, FALSE, FALSE, TRUE)
  /\ \E k \in {"Auth", "AuthAnthropic"}, t \in Strings, h \in Headers :
       auth = [kind |-> k, token |-> t, header |-> h, pc |-> "pending",
               aborted |-> FALSE, status |-> 0, handler |-> FALSE]
  /\ Untouched

\* the middleware body: ErrorWithHttpStatus(c, 401, ...) and c.Abort(), or a
\* plain return
Check(passes) ==
  /\ auth.pc = "pending"
  /\ auth' = [auth EXCEPT !.pc = "checked",
                          !.aborted = ~passes,
                          !.status = IF passes THEN 0 ELSE StatusUnauthorized]
  /\ UNCHANGED <<storeVars, req, now, other, ctxDone, pc, result, poolVars,
                 loopVars, logVars, streamVars, attempts>>

Auth == auth.kind = "Auth" /\ Check(AuthPasses(auth.token, auth.header))

AuthAnthropic ==
  auth.kind = "AuthAnthropic" /\ Check(AuthAnthropicPasses(auth.token, auth.header))

\* gin runs the next handler of the chain unless the context was aborted
NextHandler ==
  /\ auth.pc = "checked"
  /\ auth' = [auth EXCEPT !.pc = "done", !.handler = ~auth.aborted]
  /\ UNCHANGED <<storeVars, req, now, other, ctxDone, pc, result, poolVars,
                 loopVars, logVars, streamVars, attempts>>

NextAuth == Auth \/ AuthAnthropic \/ NextHandler

SpecAuth == InitAuth /\ [][NextAuth]_vars

\* ---------------------------------------------------------- admin surface
\* (the handlers of the admin API are not among the sources: create, update
\* and delete of model, mapping and provider rows follow the spec, 6.1-6.2;
\* each is one write to the store)
AdminWrite(ms, mp, pt) ==
  /\ Len(storeLog) <= MaxAdminOps
  /\ pc # "done"
  /\ models' = ms
  /\ mappings' = mp
  /\ providersTbl' = pt
  /\ storeLog' = Append(storeLog,
                        [models |-> ms, mappings |-> mp, providersTbl |-> pt])
  /\ UNCHANGED <<reqVars, ctxDone, pc, result, poolVars, loopVars, logVars,
                 streamVars, attempts>>

AdminUpdateModel ==
  \E row \in models, r \in 1..MaxRetryBound :
    /\ r # row.MaxRetry
    /\ AdminWrite((models \ {row}) \cup {[row EXCEPT !.MaxRetry = r]},
                  mappings, providersTbl)

AdminCreateMapping ==
  \E m \in MappingIds \ DOMAIN mappings, p \in ProviderIds :
    AdminWrite(models,
               [x \in DOMAIN mappings \cup {m} |->
                  IF x = m THEN MappingRow(1, p, 1, "null", "null", "null")
                  ELSE mappings[x]],
               providersTbl)

AdminUpdateMapping ==
  \E m \in DOMAIN mappings, w \in 1..MaxWeight :
    /\ w # mappings[m].Weight
    /\ AdminWrite(models, [mappings EXCEPT ![m].Weight = w], providersTbl)

AdminDeleteMapping ==
  \E m \in DOMAIN mappings :
    /\ NotDeleted(mappings[m])
    /\ AdminWrite(models, [mappings EXCEPT ![m].DeletedAt = "deleted"],
                  providersTbl)

AdminUpdateProvider ==
  \E p \in DOMAIN providersTbl, t \in Styles :
    /\ t # providersTbl[p].Type
    /\ AdminWrite(models, mappings, [providersTbl EXCEPT ![p].Type = t])

AdminDeleteProvider ==
  \E p \in DOMAIN providersTbl :
    /\ NotDeleted(providersTbl[p])
    /\ AdminWrite(models, mappings,
                  [providersTbl EXCEPT ![p].DeletedAt = "deleted"])

\* one model with one mapping; a second mapping can be created
InitAdmin ==
  /\ models = {ModelRow(1, "m1", 1)}
  /\ mappings = [m \in {1} |-> MappingRow(1, 1, 1, "null", "null", "null")]
  /\ providersTbl = [p \in ProviderIds |-> ProviderRow("openai", TRUE)]
  /\ req = Request("m1", "openai", FALSE, FALSE, FALSE, FALSE, TRUE)
  /\ Entry

NextAdmin ==
  \/ NextPool
  \/ AdminUpdateModel
  \/ AdminCreateMapping \/ AdminUpdateMapping \/ AdminDeleteMapping
  \/ AdminUpdateProvider \/ AdminDeleteProvider

\* the resolver's reads interleaved with admin writes
SpecAdmin == InitAdmin /\ [][NextAdmin]_vars

\* dispatch over a store with soft-deleted rows
SpecSoftDelete == InitDeleted /\ [][Next]_vars

\* ===================================================================== claims
Max(a, b) == IF a >= b THEN a ELSE b
Is2xx(st) == st >= 200 /\ st <= 299
ErrorLogs == {i \in DOMAIN chatLogs : chatLogs[i].Status = "error"}
SuccessLogs == {i \in DOMAIN chatLogs : chatLogs[i].Status = "success"}
\* attempts whose upstream call returned a response
Responded == {i \in DOMAIN attempts : attempts[i].kind \in {"status", "success", "saveErr"}}
\* attempts whose upstream call was made and has ended
Called == {i \in DOMAIN attempts : attempts[i].kind = "transport"} \cup Responded
\* attempts that ended with a transport error or a status the code does not
\* take as success
FailedAttempts == {i \in DOMAIN attempts : attempts[i].kind \in {"transport", "status"}}
Written == client.flushed \/ client.headers # {} \/ client.delivered # <<>>

\* C1: nothing (header or byte) is written to the client during an attempt
\* that ends in failure, and once something has been written no further
\* provider is selected or called: whenever the client has received anything,
\* the last attempt of the request is the one that was committed, every
\* earlier attempt is a failed one, and the dispatch loop is past selection.
C1_NoForwardOnFailedAttempt ==
  Written =>
    /\ attempts # <<>>
    /\ Last(attempts).kind = "success"
    /\ \A i \in 1..(Len(attempts) - 1) : i \in FailedAttempts
    /\ pc \in {"copyRead", "teeWrite", "clientWrite", "done"}

\* C1 witness: the copy failed after a byte reached the client while the pool
\* and the retry budget would still have allowed another attempt.
C1_Witness ==
  /\ pc = "done"
  /\ result = "CopyErr"
  /\ client.delivered # <<>>
  /\ retry + 1 < llmProvidersWithLimit.MaxRetry
  /\ DOMAIN items # {}

\* C2: the bytes delivered to the client are always a prefix of the upstream
\* body of the current response, and equal the whole body when BalanceChat
\* returns nil.
C2_DeliveredIsPrefix ==
  /\ IsPrefix(client.delivered, res.body)
  /\ result = "nil" => client.delivered = res.body

\* C2 witness: a body of at least two bytes was delivered completely.
C2_Witness == result = "nil" /\ Len(client.delivered) >= 2

\* C3 (as stated): when the pool is not empty and every upstream call made
\* for the request succeeded (2xx), the finished request has exactly one
\* success ChatLog, whose retry is the index of the successful attempt; and
\* there is never more than one success ChatLog.
C3_ExactlyOneSuccessLog ==
  /\ Cardinality(SuccessLogs) <= 1
  /\ (/\ pc = "done"
      /\ Called # {}
      /\ \A i \in Called : i \in Responded /\ Is2xx(attempts[i].status))
     => \E i \in Called, l \in SuccessLogs :
          /\ SuccessLogs = {l}
          /\ attempts[i].kind = "success"
          /\ chatLogs[l].Retry = i - 1

\* C4 (as stated): once the writer has drained the channel and ended, the
\* store holds exactly one error ChatLog per attempt whose upstream call
\* failed (transport error or non-2xx status), no other error ChatLog, and at
\* most max_retry of them.
C4_ErrorLogsEqualFailedCalls ==
  writerPc = "exit" =>
    LET failed == {i \in Called : i \notin Responded \/ ~Is2xx(attempts[i].status)} IN
      /\ \A i \in failed :
           Cardinality({l \in ErrorLogs : chatLogs[l].Retry = i - 1}) = 1
      /\ Cardinality(ErrorLogs) = Cardinality(failed)
      /\ Cardinality(ErrorLogs) <= llmProvidersWithLimit.MaxRetry

\* C5: a 429 for key k of weight w >= 1 leaves k in the weight map with
\* weight max(1, w - floor(w/3)), and leaves every other key and weight as
\* it was.
C5_PenaltyOn429 ==
  \A i \in DOMAIN attempts :
    LET a == attempts[i] IN
      (a.kind = "status" /\ a.status = 429 /\ a.before[a.key] >= 1) =>
        /\ DOMAIN a.after = DOMAIN a.before
        /\ a.after[a.key] = Max(1, a.before[a.key] - (a.before[a.key] \div 3))
        /\ \A k \in DOMAIN a.before : k # a.key => a.after[k] = a.before[k]

\* C5 witness: the spec's scenario, weight 6 becomes 4 next to another key,
\* and the weight 2 that a division by 2 would lower stays.
C5_Witness ==
  \E i \in DOMAIN attempts :
    /\ attempts[i].kind = "status" /\ attempts[i].status = 429
    /\ attempts[i].before[attempts[i].key] = 6
    /\ attempts[i].after[attempts[i].key] = 4
    /\ Cardinality(DOMAIN attempts[i].after) = 2

\* C6: an attempt on key k that ends with a transport error or with a
\* non-2xx status other than 429 removes k and nothing else from the weight
\* map, and no later attempt of the request selects k.
C6_HardFailureRemovesKey ==
  \A i \in DOMAIN attempts :
    LET a == attempts[i] IN
      (a.kind = "transport"
         \/ (a.kind = "status" /\ ~Is2xx(a.status) /\ a.status # 429)) =>
        /\ a.after = RemoveKey(a.before, a.key)
        /\ \A j \in DOMAIN attempts :
             j > i => attempts[j].key # a.key /\ a.key \notin DOMAIN attempts[j].before
        /\ (pc \in {"loop", "pick"} /\ i = Len(attempts)) => a.key \notin DOMAIN items

\* C6 witness: after a 500 on one of two keys a later attempt picked the other.
C6_Witness ==
  \E i, j \in DOMAIN attempts :
    /\ i < j
    /\ attempts[i].kind = "status" /\ attempts[i].status = 500
    /\ Cardinality(DOMAIN attempts[i].before) = 2
    /\ attempts[j].key # attempts[i].key

\* C7 (as stated): every response with a status in 200..299 takes the success
\* path: it is not classified as a failure, no failure ChatLog is emitted for
\* its attempt, and its mapping stays in the weight map.
C7_Every2xxIsSuccess ==
  \A i \in Responded :
    Is2xx(attempts[i].status) =>
      /\ attempts[i].kind # "status"
      /\ attempts[i].key \in DOMAIN attempts[i].after
      /\ \A l \in ErrorLogs : chatLogs[l].Retry # i - 1
      /\ \A n \in DOMAIN retryErrLog : retryErrLog[n].Retry # i - 1

\* C8 (as stated): once the request has returned and the writer has ended,
\* every attempt that failed after its provider was selected (adapter
\* instantiation, transport error, non-success status, insert of the success
\* row, copy to the client) has a ChatLog row with status error and an error
\* text.
C8_EveryFailureHasErrorRow ==
  (pc = "done" /\ writerPc \in {"exit", "none"}) =>
    \A i \in DOMAIN attempts :
      (\/ attempts[i].kind \in {"newErr", "transport", "status", "saveErr"}
       \/ (attempts[i].kind = "success" /\ result = "CopyErr")) =>
        \E l \in DOMAIN chatLogs :
          /\ chatLogs[l].Status = "error"
          /\ chatLogs[l].Retry = i - 1
          /\ chatLogs[l].Error # NoErr

\* C9 (as stated): in the store, in insertion order, no success row precedes
\* the failure row of an earlier attempt of the request.
C9_FailureRowsBeforeSuccessRow ==
  \A s \in SuccessLogs, e \in ErrorLogs :
    chatLogs[e].Retry < chatLogs[s].Retry => e < s

\* C10: the initial weight table holds mapping m, with m's weight, iff m
\* belongs to the requested model, m's provider has the request's style, and
\* no capability the request needs is flagged false on m.
NeedsOk(flag, need) == need => flag \in {"null", "true"}
InPool(m) ==
  /\ \E row \in models : row.Name = req.model /\ mappings[m].ModelID = row.ID
  /\ providersTbl[mappings[m].ProviderID].Type = req.style
  /\ NeedsOk(mappings[m].ToolCall, req.toolCall)
  /\ NeedsOk(mappings[m].StructuredOutput, req.structuredOutput)
  /\ NeedsOk(mappings[m].Image, req.image)

C10_InitialWeightTable ==
  (pc \in {"loop", "done"} /\ req.valid) =>
    \A m \in MappingIds :
      /\ m \in DOMAIN items <=> InPool(m)
      /\ m \in DOMAIN items => items[m] = mappings[m].Weight

\* C10 witness: the request needs tool calls; a mapping flagged false is left
\* out and a mapping with a null flag is the pool.
C10_Witness ==
  /\ pc = "loop"
  /\ req.toolCall
  /\ \E a, b \in MappingIds :
       /\ mappings[a].ToolCall = "false" /\ mappings[a].ModelID = mappings[b].ModelID
       /\ mappings[b].ToolCall = "null"
       /\ providersTbl[mappings[a].ProviderID].Type = req.style
       /\ DOMAIN items = {b}

\* C11: a soft-deleted model, mapping or provider is never part of a
\* request's pool: the model the resolver found, the mappings and the
\* providers it loaded, the keys of the weight table and the key of every
\* attempt (selected, called) are rows whose deleted_at is null.
LiveMapping(m) ==
  /\ NotDeleted(mappings[m])
  /\ NotDeleted(providersTbl[mappings[m].ProviderID])
  /\ \A r \in models : r.ID = mappings[m].ModelID => NotDeleted(r)

SnapshotOf(s) ==
  \E row \in {r \in s.models : r.Name = req.model /\ NotDeleted(r)} :
    LET ms == [m \in {x \in DOMAIN s.mappings :
                        /\ NotDeleted(s.mappings[x])
                        /\ s.mappings[x].ModelID = row.ID} |-> s.mappings[m]]
        ps == [p \in {x \in DOMAIN s.providersTbl :
                        /\ NotDeleted(s.providersTbl[x])
                        /\ s.providersTbl[x].Type = req.style
                        /\ \E m \in DOMAIN ms : ms[m].ProviderID = x}
                 |-> s.providersTbl[p]]
    IN /\ llmProvidersWithLimit =
            [Providers |-> ms, MaxRetry |-> row.MaxRetry,
             TimeOut |-> row.TimeOut, ModelID |-> row.ID]
       /\ providerMap = ps
       /\ items = BuildItemsMap(ms, ps, req.style, req)

C12_SnapshotIsOneStoreState ==
  pc = "loop" => \E i \in DOMAIN storeLog : SnapshotOf(storeLog[i])

\* C13: for both middlewares the handler is run iff the configured token is
\* empty or the presented credential (what follows "Bearer " in
\* Authorization, the value of x-api-key) equals the configured token; in
\* every other case the request is aborted with 401 and the handler is not
\* run.
Authorized ==
  \/ auth.token = <<>>
  \/ auth.kind = "Auth" /\ auth.header = Bearer \o <<" ">> \o auth.token
  \/ auth.kind = "AuthAnthropic" /\ auth.header = auth.token

C13_HandlerIffAuthorized ==
  auth.pc = "done" =>
    /\ auth.handler <=> Authorized
    /\ Authorized => ~auth.aborted /\ auth.status = 0
    /\ ~Authorized => auth.aborted /\ auth.status = StatusUnauthorized

\* C13 witness: a token is configured and the request was aborted with 401
\* because its header has the right credential under another scheme word.
C13_Witness ==
  /\ auth.pc = "done"
  /\ auth.kind = "Auth"
  /\ auth.token # <<>>
  /\ Len(SplitN2(auth.header)) = 2
  /\ SplitN2(auth.header)[2] = auth.token
  /\ auth.aborted /\ auth.status = StatusUnauthorized /\ ~auth.handler

\* the steps of io.Copy and of what precedes it after the success commit
CopyStep ==
  \/ SpawnAccounting \/ FlushHeaders \/ CopyRead \/ CopyEOF \/ CopyReadError
  \/ TeeWriteDone \/ TeeWriteClosed \/ ClientWrite \/ ClientWriteFail
Committed == attempts # <<>> /\ Last(attempts).kind = "success"

\* C14: for a request that reached the success commit the accounting task is
\* started exactly once and terminates: the copy is never stuck (it can step,
\* or the accounting reader can take bytes), every return after the spawn
\* leaves the pipe writer closed, with EOF after a complete copy and with
\* the copy error otherwise, a running accounting task then reads the end of
\* the stream, and the success row is updated at most once, exactly once
\* when the task has ended.
C14_AccountingTerminates ==
  /\ acct.starts <= 1
  /\ acct.starts = 1 <=> (Committed /\ pc # "spawn")
  /\ (Committed /\ pc # "done") => ENABLED (CopyStep \/ AcctRead)
  /\ (Committed /\ pc = "done") =>
       /\ pipe.state \in {"wclosed", "rclosed"}
       /\ pipe.state = "wclosed" =>
            /\ result = "nil" => pipe.werr = "EOF" /\ pipe.cerr = "none"
            /\ result # "nil" => pipe.werr = pipe.cerr /\ pipe.cerr # "none"
       /\ acct.pc = "running" => ENABLED AcctFinish
  /\ acct.updates <= 1
  /\ acct.pc = "done" => acct.updates = 1
  /\ acct.pc \in {"none", "running"} => acct.updates = 0

\* C14 witness: the copy ended with an error after a complete first chunk,
\* the writer was closed with that error and the task ended with its one
\* update.
C14_Witness ==
  /\ result = "CopyErr"
  /\ pipe.state = "wclosed" /\ pipe.werr = "readErr"
  /\ acct.pc = "done" /\ acct.updates = 1 /\ acct.seen # <<>>

\* C15: when the copy ends because a write to the client failed or the read
\* of the upstream body failed (the request context was cancelled),
\* BalanceChat returns that error, nothing past the bytes read is forwarded,
\* the upstream body is closed (once), the accounting task has received
\* every byte that was teed, is handed the error and completes, and the
\* ChatLog row of the attempt still has status success.
C15_ClientDisconnect ==
  (pc = "done" /\ pipe.cerr \in {"writeErr", "readErr"}) =>
    /\ result = "CopyErr"
    /\ IsPrefix(client.delivered, Prefix(res.body, res.pos))
    /\ ~res.open /\ res.closes = 1
    /\ pipe.state \in {"wclosed", "rclosed"}
    /\ pipe.state = "wclosed" =>
         /\ pipe.werr = pipe.cerr
         /\ acct.seen = Prefix(res.body, res.pos)
         /\ acct.pc = "running" => ENABLED AcctFinish
    /\ acct.pc = "done" => acct.updates = 1
    /\ logId \in DOMAIN chatLogs /\ chatLogs[logId].Status = "success"

\* C15 witness: the client went away in the middle of the second chunk; the
\* accounting task holds both chunks and has ended.
C15_Witness ==
  /\ pc = "done"
  /\ pipe.cerr = "writeErr" /\ pipe.werr = "writeErr"
  /\ client.delivered # <<>>
  /\ Len(acct.seen) > Len(client.delivered)
  /\ acct.pc = "done"

\* C16 (as stated): when the accounting task has stopped reading and
\* returned before the end of the stream, and neither the upstream read nor
\* a client write failed, the client has the complete upstream body and
\* BalanceChat returns nil.
C16_AccountingFailureHarmless ==
  (pc = "done" /\ pipe.state = "rclosed"
     /\ pipe.cerr \notin {"writeErr", "readErr"}) =>
    /\ result = "nil"
    /\ client.delivered = res.body

\* C17: when the pick finds the pool empty (every entry was removed by a
\* transport error or a status other than 200 and 429) while attempts remain,
\* BalanceChat returns the pick's error without a selection, an upstream call
\* or a ChatLog for that attempt; with two mappings (weights 1 and 1 among
\* them), max_retry 5 and upstreams that always fail with 500, the request
\* ends so after exactly two upstream calls and exactly two error ChatLogs.
C17_EmptyPoolAfterHardFailures ==
  /\ result = "EmptyPool" =>
       /\ DOMAIN items = {}
       /\ retry < llmProvidersWithLimit.MaxRetry
       /\ Len(attempts) = retry
       /\ \A i \in DOMAIN attempts :
            /\ i \in FailedAttempts
            /\ attempts[i].after = RemoveKey(attempts[i].before, attempts[i].key)
       /\ Cardinality(Called) = retry
       /\ Len(chatLogs) + Len(retryErrLog) = retry
       /\ ~res.open
  /\ pc = "done" =>
       /\ result = "EmptyPool"
       /\ Cardinality(Called) = 2
       /\ Len(chatLogs) + Len(retryErrLog) = 2
       /\ writerPc = "exit" =>
            /\ Cardinality(ErrorLogs) = 2
            /\ SuccessLogs = {}
            /\ \A i \in Called : \E l \in ErrorLogs : chatLogs[l].Retry = i - 1

\* C17 witness: pool {1:1, 2:1}, three or more attempts left, both upstreams
\* answered 500 and the writer has stored the two error rows.
C17_Witness ==
  /\ result = "EmptyPool"
  /\ llmProvidersWithLimit.MaxRetry - retry >= 3
  /\ \A m \in MappingIds : mappings[m].Weight = 1
  /\ \A i \in DOMAIN attempts : attempts[i].status = 500
  /\ writerPc = "exit"
  /\ Cardinality(ErrorLogs) = 2

\* the steps of the BalanceChat goroutine
DispatchStep ==
  \/ Parse \/ QueryModel \/ QueryMappings \/ QueryProviders \/ BuildItems
  \/ LoopCheck \/ Pick \/ NewAdapter
  \/ CallTransportError \/ CallResponse \/ ClassifyFail
  \/ SaveSuccessLog \/ SaveSuccessLogFail
  \/ CopyStep

\* C18: a request makes at most max_retry attempts and upstream calls, is
\* never stuck before it returns, and returns "maximum retry attempts
\* reached" exactly when max_retry attempts have all failed, whether or not
\* the pool still has entries.
C18_AtMostMaxRetryAttempts ==
  /\ retry <= llmProvidersWithLimit.MaxRetry
  /\ Len(attempts) <= llmProvidersWithLimit.MaxRetry
  /\ Cardinality(Called) <= llmProvidersWithLimit.MaxRetry
  /\ pc # "done" => ENABLED (DispatchStep \/ AcctRead)
  /\ (/\ pc \in {"loop", "done"}
      /\ Len(attempts) = llmProvidersWithLimit.MaxRetry
      /\ \A i \in DOMAIN attempts : i \in FailedAttempts)
     => (pc = "done" => result = "MaxRetry") /\ (pc = "loop" => ENABLED LoopCheck)
  /\ result = "MaxRetry" =>
       /\ Len(attempts) = llmProvidersWithLimit.MaxRetry
       /\ \A i \in DOMAIN attempts : i \in FailedAttempts

\* C18 witness: two or more attempts, all answered 429, the pool still has
\* its entries and the request ended with the retry bound.
C18_Witness ==
  /\ result = "MaxRetry"
  /\ Len(attempts) >= 2
  /\ \A i \in DOMAIN attempts : attempts[i].status = 429
  /\ Cardinality(DOMAIN items) = 2

\* C19 (as stated): no attempt is entered once timeout_seconds have passed
\* since the request began to retry: every attempt began within
\* timeout_seconds of the entry of BalanceChat.
C19_NoAttemptAfterTimeout ==
  \A i \in DOMAIN attempts :
    attempts[i].at <= llmProvidersWithLimit.TimeOut * TicksPerSecond

\* C20: a step of the loop head taken with a cancelled context, while
\* attempts remain, ends the request with the context's error and leaves the
\* weight map, the selection, the attempts, the channel of ChatLogs, the
\* store of ChatLogs, the response and the client as they were.
C20_CancelledBeforeAttempt ==
  [][(pc = "loop" /\ pc' # "loop" /\ ctxDone
        /\ retry < llmProvidersWithLimit.MaxRetry)
     => /\ pc' = "done"
        /\ result' = "Cancelled"
        /\ UNCHANGED <<poolVars, loopVars, retryErrLog, chatLogs, logId,
                       streamVars, attempts>>]_vars

\* C20 witness: the context was cancelled during a first attempt that ended
\* in a 429; the second attempt ended at the loop head, with the pool and the
\* retry budget not exhausted.
C20_Witness ==
  /\ result = "Cancelled"
  /\ retry >= 1
  /\ retry < llmProvidersWithLimit.MaxRetry
  /\ Len(attempts) = retry
  /\ Last(attempts).status = 429
  /\ DOMAIN items # {}

\* C21: pool resolution fails in this order: a request that does not parse,
\* then no live model row of the requested name, then no mapping of the
\* model, then no provider of the request style among the mappings'
\* providers, then an empty weight table after the capability filter; and in
\* each of these cases no key was selected, no upstream call made, no ChatLog
\* enqueued or stored, no writer or channel made and nothing written to the
\* client.
LiveModels == {r \in models : r.Name = req.model /\ r.DeletedAt = "null"}
LiveMappings ==
  {m \in DOMAIN mappings :
     /\ mappings[m].DeletedAt = "null"
     /\ \E r \in LiveModels : mappings[m].ModelID = r.ID}
StyleMappings ==
  {m \in LiveMappings :
     /\ providersTbl[mappings[m].ProviderID].DeletedAt = "null"
     /\ providersTbl[mappings[m].ProviderID].Type = req.style}
CapableMappings ==
  {m \in StyleMappings :
     /\ NeedsOk(mappings[m].ToolCall, req.toolCall)
     /\ NeedsOk(mappings[m].StructuredOutput, req.structuredOutput)
     /\ NeedsOk(mappings[m].Image, req.image)}
ResolutionErrors ==
  {"BadRequest", "ModelNotFound", "NoMappings", "NoProviderForStyle",
   "NoValidProvider"}

C21_ResolutionPrecedence ==
  /\ pc = "done" =>
       result = (IF ~req.valid THEN "BadRequest"
                 ELSE IF LiveModels = {} THEN "ModelNotFound"
                 ELSE IF LiveMappings = {} THEN "NoMappings"
                 ELSE IF StyleMappings = {} THEN "NoProviderForStyle"
                 ELSE IF CapableMappings = {} THEN "NoValidProvider"
                 ELSE "none")
  /\ pc = "loop" => req.valid /\ CapableMappings # {}
  /\ result \in ResolutionErrors =>
       /\ attempts = <<>> /\ item = 0 /\ res = NoRes
       /\ chatLogs = <<>> /\ retryErrLog = <<>> /\ logId = 0
       /\ chanState = "none" /\ writerPc = "none"
       /\ ~Written /\ pipe = NoPipe /\ acct = NoAcct

\* C21 witness: the model has a mapping, but on a provider of the other
\* style, and that mapping is also flagged false for a capability the
\* request needs: the style error comes first.
C21_Witness ==
  /\ result = "NoProviderForStyle"
  /\ \E m \in LiveMappings :
       /\ mappings[m].ToolCall = "false" /\ req.toolCall
       /\ providersTbl[mappings[m].ProviderID].Type # req.style

\* C22 (as stated): when BalanceChat has returned after the writer was
\* started, no failure ChatLog is still buffered in the channel and every
\* failure ChatLog the request enqueued is a row of the store.
C22_WriterDrainedAtReturn ==
  (pc = "done" /\ writerPc # "none") =>
    /\ retryErrLog = <<>>
    /\ \A i \in FailedAttempts :
         \E l \in ErrorLogs : chatLogs[l].Retry = i - 1

\* C23: a send of a failure ChatLog never blocks: wherever BalanceChat is
\* about to send (after a failed call, after a response that is not a 200)
\* the send can be taken at once, the channel never holds more than the logs
\* of the attempts made so far, which is at most max_retry, and the request
\* has one writer, started together with the channel.
C23_SendNeverBlocks ==
  /\ pc = "call" => ENABLED CallTransportError
  /\ (pc = "classify" /\ ~IsSuccessStatus(res.status)) => ENABLED ClassifyFail
  /\ Len(retryErrLog) <= Cardinality(FailedAttempts)
  /\ Cardinality(FailedAttempts) <= llmProvidersWithLimit.MaxRetry
  /\ writerPc # "none" <=> chanState # "none"
  /\ chanState # "none" <=>
       (pc \notin {"parse", "queryModel", "queryMappings", "queryProviders",
                   "buildItems"} /\ result \notin ResolutionErrors)

\* C23 witness: the last attempt of a request with two or more attempts is
\* about to send while the writer has stored nothing yet.
C23_Witness ==
  /\ pc = "call"
  /\ retry >= 1
  /\ retry + 1 = llmProvidersWithLimit.MaxRetry
  /\ Len(retryErrLog) = retry
  /\ chatLogs = <<>>

\* the request task's own step out of the tee's write to the pipe
ForwardStep == TeeWriteDone \/ TeeWriteClosed

\* C24 (as stated): an accounting reader that has stopped reading does not
\* hold up the forwarding: whenever the copy has read a chunk of the upstream
\* body, the request task can carry it on to the client without a step of the
\* accounting task.
C24_ForwardingIndependentOfAccounting ==
  pc = "teeWrite" => ENABLED ForwardStep

\* the bytes that reached the accounting side of the tee: those the processer
\* has read and those the pipe holds for it
AcctSide == acct.seen \o pipe.pending
PrefixComparable(s, t) == IsPrefix(s, t) \/ IsPrefix(t, s)

\* C25: the accounting side of the tee and the client get the same bytes in
\* the same order: at every point one of the two sequences is a prefix of the
\* other and both are prefixes of the upstream body, and when the copy ends
\* without error both are the whole body.
C25_TeeSidesIdentical ==
  acct.starts >= 1 =>
    /\ PrefixComparable(AcctSide, client.delivered)
    /\ IsPrefix(AcctSide, res.body)
    /\ IsPrefix(client.delivered, res.body)
    /\ result = "nil" =>
         /\ client.delivered = res.body
         /\ acct.seen = res.body
         /\ pipe.pending = <<>>

\* C25 witness: in the middle of a body of two bytes read in two chunks, the
\* accounting side is one chunk ahead of the client.
C25_Witness ==
  /\ pc = "clientWrite"
  /\ Len(res.body) = 2
  /\ Len(client.delivered) = 1
  /\ acct.seen = res.body

\* C26: the success commit is entered at most once, in the order: the
\* success ChatLog is stored and its id obtained, the accounting task is
\* started with that id, the headers are flushed, the body is forwarded.
\* The accounting task is started at most once and only with the id of a
\* stored success row, the flush happens only after that start, and no body
\* byte reaches the client before the success row exists and the headers are
\* flushed.
C26_CommitOrder ==
  /\ acct.starts <= 1
  /\ Cardinality(SuccessLogs) <= 1
  /\ pc = "spawn" => logId \in SuccessLogs /\ acct.starts = 0 /\ ~Written
  /\ acct.starts = 1 => acct.logId = logId /\ logId \in SuccessLogs
  /\ pc = "headers" => acct.starts = 1 /\ ~Written
  /\ client.flushed => acct.starts = 1
  /\ client.delivered # <<>> => client.flushed /\ SuccessLogs # {}

\* C26 witness: body bytes are forwarded for a success row stored after a
\* failure row of an earlier attempt.
C26_Witness ==
  /\ client.delivered # <<>>
  /\ logId >= 2
  /\ acct.logId = logId

\* C27: on the success path the headers the client gets are Content-Type:
\* text/event-stream and Cache-Control: no-cache for a streaming request and
\* Content-Type: application/json otherwise, no header is set before the
\* commit, and the headers are flushed before the first body byte is written.
C27_HeadersBeforeBody ==
  /\ client.flushed =>
       /\ Committed
       /\ client.headers =
            IF req.stream
              THEN {<<"Content-Type", "text/event-stream">>,
                    <<"Cache-Control", "no-cache">>}
              ELSE {<<"Content-Type", "application/json">>}
  /\ client.headers # {} => client.flushed
  /\ client.delivered # <<>> => client.flushed
  /\ pc \in {"copyRead", "teeWrite", "clientWrite"} => client.flushed
  /\ result = "nil" => client.flushed

\* C27 witness: a streaming request whose body is being forwarded after the
\* flush.
C27_Witness ==
  /\ req.stream
  /\ client.flushed
  /\ client.delivered # <<>>
  /\ pc = "copyRead"

\* C28: when providers.New fails for the selected provider, BalanceChat
\* returns that error at once: the attempt ends without an upstream call and
\* without a ChatLog, it is the last attempt of the request even when other
\* entries and retries remain, the weight map is what it was at the pick,
\* and nothing is written to the client.
C28_AdapterErrorIsFatal ==
  /\ \A i \in DOMAIN attempts :
       attempts[i].kind = "newErr" =>
         /\ i = Len(attempts)
         /\ result = "NewAdapterErr"
         /\ attempts[i].after = attempts[i].before
  /\ result = "NewAdapterErr" =>
       /\ pc = "done"
       /\ Last(attempts).kind = "newErr"
       /\ items = Last(attempts).before
       /\ Len(attempts) = retry + 1
       /\ Called = 1..retry
       /\ Len(retryErrLog) + Len(chatLogs) <= retry
       /\ SuccessLogs = {}
       /\ ~Written
       /\ acct = NoAcct

\* C28 witness: the adapter of the second attempt cannot be made while both
\* entries are in the weight map and a retry remains.
C28_Witness ==
  /\ result = "NewAdapterErr"
  /\ retry >= 1
  /\ retry + 1 < llmProvidersWithLimit.MaxRetry
  /\ Cardinality(DOMAIN items) = 2

\* the weight table a request for req builds from the store the requests
\* started with
StoredTable ==
  [m \in {x \in DOMAIN storeLog[1].mappings :
            storeLog[1].mappings[x].ModelID = 1} |->
     storeLog[1].mappings[m].Weight]
\* each attempt of a history starts from the table its own previous attempt
\* left
OwnChain(h) == \A i \in 1..(Len(h) - 1) : h[i + 1].before = h[i].after

\* C29: the weight map belongs to one request. Of two requests for the same
\* model running side by side, each one's table at every pick is the table
\* its own previous attempt left (the stored weights at its first pick),
\* whatever the other has removed or penalised in between, and the weights
\* in the store stay what they were, so that a request that starts later
\* starts from the stored weights.
C29_WeightMapPrivate ==
  /\ Store = storeLog[1]
  /\ OwnChain(attempts)
  /\ attempts # <<>> => attempts[1].before = StoredTable
  /\ pc \in {"loop", "pick"} =>
       items = IF attempts = <<>> THEN StoredTable ELSE Last(attempts).after
  /\ other.pc # "idle" =>
       /\ other.start = StoredTable
       /\ OwnChain(other.hist)
       /\ other.hist # <<>> => other.hist[1].before = other.start
       /\ other.items = IF other.hist = <<>> THEN other.start
                        ELSE Last(other.hist).after

\* C29 witness: the second request started after the first had penalised an
\* entry, and has itself removed that entry, which the first still holds at
\* its reduced weight.
C29_Witness ==
  /\ other.born >= 1
  /\ other.hist # <<>>
  /\ \E k \in DOMAIN items :
       /\ items[k] < StoredTable[k]
       /\ k \notin DOMAIN other.items
       /\ other.hist[1].before[k] = StoredTable[k]

\* the draws of [0, total) that the scan in entry order o maps to key k
DrawsFor(m, o, k) == {d \in 0..(Total(m) - 1) : Scan(m, o, 1, d) = k}

\* C30: at every pick over a non-empty weight map, as built from the stored
\* weights and as left by the removals and penalties of earlier attempts,
\* every weight is at least 1, the pick returns a key of the map, and for
\* every entry order exactly weight[k] of the total draws map to key k.
C30_PickIsWeighted ==
  (pc = "pick" /\ DOMAIN items # {}) =>
    /\ \A k \in DOMAIN items : items[k] >= 1
    /\ Total(items) >= Cardinality(DOMAIN items)
    /\ WeightedRandom(items) # {}
    /\ WeightedRandom(items) \subseteq DOMAIN items
    /\ \A o \in Orders(items), k \in DOMAIN items :
         Cardinality(DrawsFor(items, o, k)) = items[k]

\* C30 witness: a pick over two entries of different weights, one of them
\* reduced by a 429 of an earlier attempt.
C30_Witness ==
  /\ pc = "pick"
  /\ Cardinality(DOMAIN items) = 2
  /\ \E k, j \in DOMAIN items : items[k] # items[j]
  /\ \E i \in DOMAIN attempts :
       /\ attempts[i].status = StatusTooManyRequests
       /\ attempts[i].key \in DOMAIN items
       /\ items[attempts[i].key] < attempts[i].before[attempts[i].key]

\* the weight map as BalanceChat first builds it from the loaded rows
InitialItems ==
  BuildItemsMap(llmProvidersWithLimit.Providers, providerMap, req.style, req)
\* map a is map b after removals and reductions only
Shrunk(a, b) ==
  /\ DOMAIN a \subseteq DOMAIN b
  /\ \A k \in DOMAIN a : a[k] >= 1 /\ a[k] <= b[k]

\* C31: with stored weights of at least 1, the weight map always holds a
\* subset of the initially eligible keys, each with a weight of at least 1
\* and at most its initial weight, and every attempt leaves a map that has
\* no key and no weight above the map it started from.
C31_WeightMapOnlyShrinks ==
  /\ Shrunk(items, InitialItems)
  /\ \A i \in DOMAIN attempts :
       /\ Shrunk(attempts[i].before, InitialItems)
       /\ Shrunk(attempts[i].after, attempts[i].before)
       /\ i > 1 => Shrunk(attempts[i].before, attempts[i - 1].after)

\* C31 witness: after two attempts one entry has been removed and the other
\* is left at a reduced weight.
C31_Witness ==
  /\ pc = "loop"
  /\ Len(attempts) = 2
  /\ Cardinality(DOMAIN InitialItems) = 2
  /\ \E k \in DOMAIN items :
       /\ items[k] < InitialItems[k]
       /\ DOMAIN items = {k}

\* the lookup of lines 174-183 for key k: its index in the loaded mapping
\* list exists, and the provider map holds a provider of the request style
\* for it
LookupOk(k) ==
  /\ k \in DOMAIN llmProvidersWithLimit.Providers
  /\ llmProvidersWithLimit.Providers[k].ProviderID \in DOMAIN providerMap
  /\ providerMap[llmProvidersWithLimit.Providers[k].ProviderID].Type = req.style

\* C32: every key the pick can return, in the weight map as built and as
\* left by removals and penalties, resolves to a loaded mapping and to a
\* provider of the request style; the key selected for an attempt does too.
C32_LookupNeverFails ==
  /\ \A k \in DOMAIN items : LookupOk(k)
  /\ pc = "pick" => \A k \in WeightedRandom(items) : LookupOk(k)
  /\ pc \in {"new", "call", "classify"} => LookupOk(item)

\* C32 witness: a second selection, after a 429 that reduced a weight, for a
\* request whose model has a mapping on a provider of another style that is
\* not in the weight map.
C32_Witness ==
  /\ pc = "new"
  /\ Len(attempts) = 2
  /\ attempts[1].status = StatusTooManyRequests
  /\ attempts[1].after # attempts[1].before
  /\ \E m \in DOMAIN llmProvidersWithLimit.Providers :
       /\ m \notin DOMAIN items
       /\ providersTbl[llmProvidersWithLimit.Providers[m].ProviderID].Type
            # req.style

\* the places of BalanceChat at which a response of the current attempt is
\* held
HoldsResponse ==
  pc \in {"classify", "spawn", "headers", "copyRead", "teeWrite", "clientWrite"}

\* C33: the body of every upstream response is closed exactly once: that of
\* an attempt with a failed status before the next selection begins, that of
\* the committed attempt when BalanceChat returns, on every path; a body is
\* open only while its own attempt holds it, so at most one is open.
C33_BodyClosedOnce ==
  /\ res.closes <= 1
  /\ res.open => res.closes = 0 /\ HoldsResponse
  /\ (res.open /\ pc # "classify") => IsSuccessStatus(res.status)
  /\ (~HoldsResponse /\ res # NoRes) => ~res.open /\ res.closes = 1
  /\ pc = "done" => ~res.open
  /\ (pc = "done" /\ result \in {"nil", "SaveErr", "CopyErr"}) =>
       res.closes = 1 /\ IsSuccessStatus(res.status)

\* C33 witness: the second attempt's 200 response is closed by the return on
\* a save error, after the first attempt's response with a failed status.
C33_Witness ==
  /\ result = "SaveErr"
  /\ res.closes = 1
  /\ Len(attempts) = 2
  /\ attempts[1].kind = "status"

\* a step of the writer goroutine
WriterStep == WriterSave \/ WriterSaveFail \/ WriterExit

\* C34: on every return of BalanceChat after the channel was made the
\* channel is closed, by that return and by nothing else; after the return
\* BalanceChat takes no step, so nothing is sent on the closed channel and it
\* is not closed again; the writer can always take its next step on a closed
\* channel, each step shortening what is left, and it has exited only on a
\* closed and drained channel.
C34_ChannelClosedOnceWriterEnds ==
  /\ chanState = "closed" <=> (pc = "done" /\ writerPc # "none")
  /\ pc = "done" => ~ENABLED DispatchStep
  /\ chanState = "closed" => ~ENABLED (CallTransportError \/ ClassifyFail)
  /\ (writerPc = "running" /\ chanState = "closed") =>
       /\ ENABLED WriterStep
       /\ retryErrLog # <<>> => ENABLED WriterSave /\ ~ENABLED WriterExit
       /\ retryErrLog = <<>> => ENABLED WriterExit
  /\ writerPc = "exit" => chanState = "closed" /\ retryErrLog = <<>>
  /\ writerPc = "exit" => ~ENABLED WriterStep

\* C34 witness: BalanceChat has returned and closed the channel while two
\* failure logs are still in it and the writer is running.
C34_Witness ==
  /\ chanState = "closed"
  /\ writerPc = "running"
  /\ Len(retryErrLog) = 2

\* the ChatLogs of the request that still exist, those stored first (in
\* store order), then those waiting in the channel (in send order)
LogsSeen == chatLogs \o retryErrLog
\* the attempt that emitted a log
AttemptOf(log) == log.Retry + 1

\* C35: the attempts of a request are numbered 0, 1, 2, ... in the order
\* they are made, each emits at most one ChatLog, which carries its number:
\* the retry fields of the logs are pairwise distinct, error logs appear in
\* increasing retry order, every log belongs to the attempt of its number
\* (same mapping, error log for a failed attempt), a success log is the
\* log of the last attempt, every earlier attempt having failed, and the
\* logs waiting in the channel are those of the latest failed attempts, with
\* consecutive numbers.
C35_RetryIndexes ==
  /\ \A i \in DOMAIN attempts : attempts[i].retry = i - 1
  /\ \A i, j \in DOMAIN LogsSeen :
       /\ i # j => LogsSeen[i].Retry # LogsSeen[j].Retry
       /\ (i < j /\ LogsSeen[i].Status = "error" /\ LogsSeen[j].Status = "error")
            => LogsSeen[i].Retry < LogsSeen[j].Retry
  /\ \A i \in DOMAIN LogsSeen :
       LET log == LogsSeen[i] IN
         /\ AttemptOf(log) \in DOMAIN attempts
         /\ attempts[AttemptOf(log)].key = log.Mapping
         /\ log.Status = "error" <=> AttemptOf(log) \in FailedAttempts
         /\ log.Status = "success" =>
              /\ AttemptOf(log) = Len(attempts)
              /\ \A k \in 1..(Len(attempts) - 1) : k \in FailedAttempts
              /\ \A j \in DOMAIN LogsSeen : LogsSeen[j].Retry <= log.Retry
  /\ Len(LogsSeen) <= Len(attempts)
  /\ \A i \in DOMAIN retryErrLog :
       retryErrLog[i].Retry =
         Cardinality(FailedAttempts) - Len(retryErrLog) + i - 1

\* C35 witness: both logs of a request with two attempts exist, the error
\* log with retry 0 and the success log with retry 1.
C35_Witness ==
  /\ Len(LogsSeen) = 2
  /\ \E i, j \in DOMAIN LogsSeen :
       /\ LogsSeen[i].Status = "error" /\ LogsSeen[i].Retry = 0
       /\ LogsSeen[j].Status = "success" /\ LogsSeen[j].Retry = 1

\* what BalanceChat returns at the loop head once the context is cancelled
CancelledResult ==
  IF retry >= llmProvidersWithLimit.MaxRetry THEN "MaxRetry" ELSE "Cancelled"

\* C36: with the request context cancelled while a call is in flight, the
\* call can only end as a transport failure, which sends one error ChatLog
\* and removes the mapping; back at the loop head the only step is the
\* return, of MaxRetry when the aborted attempt was the last allowed one and
\* of Cancelled otherwise, so no other pick or call follows.
C36_CancelDuringCall ==
  /\ (pc = "call" /\ ctxDone) =>
       /\ ~ENABLED CallResponse
       /\ ENABLED CallTransportError
       /\ ~ENABLED (CallTransportError /\
                     ~(/\ pc' = "loop"
                       /\ items' = RemoveKey(items, item)
                       /\ retryErrLog' = Append(retryErrLog, Last(retryErrLog'))
                       /\ Last(retryErrLog').Status = "error"
                       /\ Last(retryErrLog').Retry = retry
                       /\ Last(attempts').kind = "transport"
                       /\ Len(attempts') = Len(attempts)
                       /\ ctxDone'))
  /\ (pc = "loop" /\ ctxDone) =>
       /\ ENABLED LoopCheck
       /\ ~ENABLED (LoopCheck /\
                     ~(/\ pc' = "done"
                       /\ result' = CancelledResult
                       /\ attempts' = attempts))
  /\ (pc = "done" /\ result = "Cancelled") => ctxDone

\* C36 witness: the context was cancelled, the call of the first attempt has
\* ended as a transport failure, its mapping is gone from the weight map and
\* a retry remains.
C36_Witness ==
  /\ pc = "loop"
  /\ ctxDone
  /\ Len(attempts) = 1
  /\ Last(attempts).kind = "transport"
  /\ item \notin DOMAIN items
  /\ retry < llmProvidersWithLimit.MaxRetry
  /\ Len(retryErrLog) = 1

\* C37: when the insert of the success ChatLog fails after a 200 response,
\* BalanceChat returns that error: the attempt is the last one even with
\* entries and retries left, no header and no byte has reached the client,
\* the pipe and the accounting task were never made, no success row exists,
\* the weight map is untouched and the upstream body is closed.
C37_SaveErrorIsFatal ==
  /\ \A i \in DOMAIN attempts :
       attempts[i].kind = "saveErr" => i = Len(attempts) /\ result = "SaveErr"
  /\ result = "SaveErr" =>
       /\ pc = "done"
       /\ Last(attempts).kind = "saveErr"
       /\ IsSuccessStatus(Last(attempts).status)
       /\ Len(attempts) = retry + 1
       /\ items = Last(attempts).before
       /\ ~Written
       /\ client = NoClient
       /\ pipe = NoPipe
       /\ acct = NoAcct
       /\ SuccessLogs = {}
       /\ logId = 0
       /\ ~res.open /\ res.closes = 1

\* C37 witness: the insert fails on the first attempt of a request with two
\* entries in the weight map and a retry left.
C37_Witness ==
  /\ result = "SaveErr"
  /\ retry = 0
  /\ llmProvidersWithLimit.MaxRetry >= 2
  /\ Cardinality(DOMAIN items) = 2

====
